---- MODULE Spec2Model ----
(***************************************************************************)
(* Bindings and effect linearization of crates/core/src/marzano_binding.rs. *)
(*                                                                         *)
(* A source file is a sequence of one-character strings ("NL" stands for   *)
(* the newline character).  The syntax tree is a root node (id 0) whose    *)
(* children are the nodes 1..Len(kids), laid out one after the other in    *)
(* the source.  A byte range is a pair <<start, end>>.                     *)
(***************************************************************************)
EXTENDS Naturals, Sequences, FiniteSets

VARIABLES
    kids,      \* the children of the root node, in source order
    effects,   \* the effect set handed to linearize_binding
    q,         \* the last query made on a binding, with its result
    memo,      \* HashMap<CodeRange, Option<String>>
    logs,      \* AnalysisLogs: the diagnostics pushed so far
    stack,     \* the active linearize_binding calls, innermost last
    status,    \* "idle" | "running" | "ok" | "err" | "overflow"
    result,    \* the text returned by the last completed request
    error,     \* the message of the error the last request returned, if any
    req,       \* the request being served, what the previous one returned, the memo it began with
    probe,     \* recursive linearized_text / linearize_binding calls of the request
    nreq,      \* requests made so far
    tree,      \* the syntax tree a suppression query looks at
    plumb      \* the run of run_plumbing: its subcommand, position and return

vars == <<kids, effects, q, memo, logs, stack, status, result, error, req, probe, nreq, tree, plumb>>

(***************************************************************************)
(* Bounds of the model.                                                    *)
(***************************************************************************)
MaxKids == 3
MaxRequests == 2

NL == "NL"

None == [some |-> FALSE, val |-> <<>>]
Some(x) == [some |-> TRUE, val |-> x]

(***************************************************************************)
(* The syntax tree (NodeWithSource) and the language predicates.           *)
(***************************************************************************)
RECURSIVE Flatten(_)
Flatten(ss) == IF ss = <<>> THEN <<>> ELSE Head(ss) \o Flatten(Tail(ss))

KidTexts(ks) == [i \in 1..Len(ks) |-> ks[i].text]

source == Flatten(KidTexts(kids))

NodeIds == 0..Len(kids)

start_byte(n) == IF n = 0 THEN 0 ELSE Len(Flatten(KidTexts(SubSeq(kids, 1, n - 1))))

end_byte(n) == IF n = 0 THEN Len(source) ELSE start_byte(n) + Len(kids[n].text)

Slice(s, e) == SubSeq(source, s + 1, e)

node_text(n) == Slice(start_byte(n), end_byte(n))

byte_range(n) == <<start_byte(n), end_byte(n)>>

kind_id(n) == IF n = 0 THEN "call" ELSE kids[n].kind

children(n) == IF n = 0 THEN [i \in 1..Len(kids) |-> i] ELSE <<>>

IsInField(n, f) == kids[n].field = f

children_by_field_id(n, f) ==
    LET Test(i) == IsInField(i, f) IN SelectSeq(children(n), Test)

named_children_by_field_id(n, f) ==
    LET Test(i) == kids[i].named IN SelectSeq(children_by_field_id(n, f), Test)

previous_sibling(n) == IF n > 1 THEN Some(n - 1) ELSE None

next_sibling(n) == IF n >= 1 /\ n < Len(kids) THEN Some(n + 1) ELSE None

is_comment(n) == kind_id(n) = "comment"

is_statement(n) == kind_id(n) = "statement"

\* Row and column (both from 0) of a byte offset of the source.
RowOf(off) == Cardinality({i \in 1..off : source[i] = NL})

ColOf(off) ==
    LET nls == {i \in 1..off : source[i] = NL}
        last == IF nls = {} THEN 0 ELSE CHOOSE i \in nls : \A j \in nls : j <= i
    IN  off - last

ends_with_newline(t) == Len(t) > 0 /\ t[Len(t)] = NL

starts_with_newline(t) == Len(t) > 0 /\ t[1] = NL

(***************************************************************************)
(* MarzanoBinding: the six variants, as records of one shape.              *)
(***************************************************************************)
NodeB(n) == [v |-> "Node", node |-> n, field |-> 0, range |-> <<0, 0>>, str |-> <<>>]
ListB(n, f) == [v |-> "List", node |-> n, field |-> f, range |-> <<0, 0>>, str |-> <<>>]
EmptyB(n, f) == [v |-> "Empty", node |-> n, field |-> f, range |-> <<0, 0>>, str |-> <<>>]
StringB(r) == [v |-> "String", node |-> 0, field |-> 0, range |-> r, str |-> <<>>]
FileNameB(p) == [v |-> "FileName", node |-> 0, field |-> 0, range |-> <<0, 0>>, str |-> p]
ConstantRefB(c) == [v |-> "ConstantRef", node |-> 0, field |-> 0, range |-> <<0, 0>>, str |-> c]

FieldIds == {1, 2}

\* Constant::to_string of a string constant, and the path of a file name.
constant_to_string(c) == c

constant_is_truthy(c) == c # <<>>

to_string_lossy(p) == p

\* a singleton that counts every child of the field, named or not
singleton_AnyChild(b) ==
    CASE b.v = "Node" -> Some(b.node)
      [] b.v = "List" ->
            LET ch == children_by_field_id(b.node, b.field)
            IN  IF Len(ch) = 1 THEN Some(ch[1]) ELSE None
      [] OTHER -> None

singleton(b) ==
    CASE b.v = "Node" -> Some(b.node)
      [] b.v = "List" ->
            LET ch == named_children_by_field_id(b.node, b.field)
            IN  IF Len(ch) = 1 THEN Some(ch[1]) ELSE None
      [] OTHER -> None

RECURSIVE WalkBack(_)
WalkBack(n) ==
    LET p == previous_sibling(n)
    IN  IF p.some /\ is_comment(p.val) THEN WalkBack(p.val) ELSE n

RECURSIVE WalkForward(_)
WalkForward(n) ==
    LET s == next_sibling(n)
    IN  IF s.some /\ is_comment(s.val) THEN WalkForward(s.val) ELSE n

\* a resolver that forgets the comments after the last child
get_range_nodes_for_list_NoTrailing(parent_node, field_id) ==
    LET ch == children_by_field_id(parent_node, field_id)
    IN  IF ch = <<>>
        THEN None
        ELSE Some(<<WalkBack(ch[1]), ch[Len(ch)]>>)

get_range_nodes_for_list(parent_node, field_id) ==
    LET ch == children_by_field_id(parent_node, field_id)
    IN  IF ch = <<>>
        THEN None
        ELSE Some(<<WalkBack(ch[1]), WalkForward(ch[Len(ch)])>>)

PositionOf(s, e) ==
    [start |-> <<RowOf(s) + 1, ColOf(s) + 1>>, end |-> <<RowOf(e) + 1, ColOf(e) + 1>>,
     start_byte |-> s, end_byte |-> e]

position(b) ==
    CASE b.v = "Empty" -> None
      [] b.v = "Node" -> Some(PositionOf(start_byte(b.node), end_byte(b.node)))
      [] b.v = "String" -> Some(PositionOf(b.range[1], b.range[2]))
      [] b.v = "List" ->
            LET rn == get_range_nodes_for_list(b.node, b.field)
            IN  IF rn.some
                THEN Some(PositionOf(start_byte(rn.val[1]), end_byte(rn.val[2])))
                ELSE None
      [] b.v = "FileName" -> None
      [] b.v = "ConstantRef" -> None

\* a range that looks at the named children of a list only
range_NamedOnly(b) ==
    CASE b.v = "Node" -> Some(byte_range(b.node))
      [] b.v = "String" -> Some(b.range)
      [] b.v = "List" ->
            LET rn == get_range_nodes_for_list(b.node, b.field)
            IN  IF rn.some /\ named_children_by_field_id(b.node, b.field) # <<>>
                THEN Some(<<start_byte(rn.val[1]), end_byte(rn.val[2])>>)
                ELSE None
      [] OTHER -> None

range(b) ==
    CASE b.v = "Empty" -> None
      [] b.v = "Node" -> Some(byte_range(b.node))
      [] b.v = "String" -> Some(b.range)
      [] b.v = "List" ->
            LET rn == get_range_nodes_for_list(b.node, b.field)
            IN  IF rn.some
                THEN Some(<<start_byte(rn.val[1]), end_byte(rn.val[2])>>)
                ELSE None
      [] b.v = "FileName" -> None
      [] b.v = "ConstantRef" -> None

\* a code range of a list that leaves the comments around it out
code_range_NoComments(b) ==
    CASE b.v = "Node" -> Some(byte_range(b.node))
      [] b.v = "String" -> Some(<<b.range[1], b.range[2]>>)
      [] b.v = "List" ->
            LET ch == children_by_field_id(b.node, b.field)
            IN  IF ch # <<>>
                THEN Some(<<start_byte(ch[1]), end_byte(ch[Len(ch)])>>)
                ELSE None
      [] OTHER -> None

code_range(b) ==
    CASE b.v = "Empty" -> None
      [] b.v = "Node" -> Some(byte_range(b.node))
      [] b.v = "String" -> Some(<<b.range[1], b.range[2]>>)
      [] b.v = "List" ->
            LET rn == get_range_nodes_for_list(b.node, b.field)
            IN  IF rn.some
                THEN Some(<<start_byte(rn.val[1]), end_byte(rn.val[2])>>)
                ELSE None
      [] b.v = "FileName" -> None
      [] b.v = "ConstantRef" -> None

text(b) ==
    CASE b.v = "Empty" -> <<>>
      [] b.v = "Node" -> node_text(b.node)
      [] b.v = "String" -> Slice(b.range[1], b.range[2])
      [] b.v = "FileName" -> to_string_lossy(b.str)
      [] b.v = "List" ->
            LET pos == range(b)
            IN  IF pos.some THEN Slice(pos.val[1], pos.val[2]) ELSE <<>>
      [] b.v = "ConstantRef" -> constant_to_string(b.str)

as_constant(b) == IF b.v = "ConstantRef" THEN Some(b.str) ELSE None

as_filename(b) == IF b.v = "FileName" THEN Some(b.str) ELSE None

as_node(b) == IF b.v = "Node" THEN Some(b.node) ELSE None

\* equivalence::are_equivalent on two nodes: same kind and same content.
are_equivalent(n1, n2) == kind_id(n1) = kind_id(n2) /\ node_text(n1) = node_text(n2)

\* impl PartialEq: the == of two bindings
eq(self, other) ==
    CASE self.v = "Empty" /\ other.v = "Empty" -> TRUE
      [] self.v = "Node" /\ other.v = "Node" -> node_text(self.node) = node_text(other.node)
      [] self.v = "String" /\ other.v = "String" ->
            Slice(self.range[1], self.range[2]) = Slice(other.range[1], other.range[2])
      [] self.v = "List" /\ other.v = "List" ->
            self.node = other.node /\ self.field = other.field
      [] self.v = "ConstantRef" /\ other.v = "ConstantRef" -> self.str = other.str
      [] OTHER -> FALSE

\* zip_longest(..).all(..) of two lists of nodes
ZipAllEquivalent(c1, c2) ==
    /\ Len(c1) = Len(c2)
    /\ \A i \in 1..Len(c1) : are_equivalent(c1[i], c2[i])

is_equivalent_to(self, other) ==
    IF singleton(self).some /\ singleton(other).some
    THEN are_equivalent(singleton(self).val, singleton(other).val)
    ELSE CASE self.v = "Node" ->
                 (CASE other.v = "Node" -> are_equivalent(self.node, other.node)
                    [] other.v = "String" ->
                          text(self) = Slice(other.range[1], other.range[2])
                    [] OTHER -> FALSE)
           [] self.v = "List" ->
                 (CASE other.v = "List" ->
                          ZipAllEquivalent(
                              named_children_by_field_id(self.node, self.field),
                              named_children_by_field_id(other.node, other.field))
                    [] OTHER -> FALSE)
           [] self.v = "Empty" ->
                 (CASE other.v = "Empty" ->
                          kind_id(self.node) = kind_id(other.node)
                              /\ self.field = other.field
                    [] OTHER -> FALSE)
           [] self.v = "ConstantRef" ->
                 (as_constant(other).some /\ self.str = as_constant(other).val)
           [] self.v = "String" ->
                 text(other) = Slice(self.range[1], self.range[2])
           [] self.v = "FileName" ->
                 (as_filename(other).some /\ self.str = as_filename(other).val)

list_items(b) ==
    IF b.v = "List" THEN Some(named_children_by_field_id(b.node, b.field)) ELSE None

\* a truthiness that counts every child of the field, named or not
is_truthy_AnyChild(b) ==
    CASE b.v = "Empty" -> FALSE
      [] b.v = "List" -> Len(children_by_field_id(b.node, b.field)) > 0
      [] b.v = "ConstantRef" -> constant_is_truthy(b.str)
      [] OTHER -> TRUE

\* a truthiness that takes every list for non-empty
is_truthy_AnyList(b) ==
    CASE b.v = "Empty" -> FALSE
      [] b.v = "ConstantRef" -> constant_is_truthy(b.str)
      [] OTHER -> TRUE

is_truthy(b) ==
    CASE b.v = "Empty" -> FALSE
      [] b.v = "List" -> Len(named_children_by_field_id(b.node, b.field)) > 0
      [] b.v = "Node" -> TRUE
      [] b.v = "String" -> TRUE
      [] b.v = "FileName" -> TRUE
      [] b.v = "ConstantRef" -> constant_is_truthy(b.str)

\* smart_insert::calculate_padding: the separator of a list laid out one child
\* per line, when the inserted text does not bring its own newline.
calculate_padding(ch, txt, is_first) ==
    IF Len(ch) < 2
    THEN None
    ELSE IF /\ \E i \in start_byte(ch[1]) + 1..start_byte(ch[2]) : source[i] = NL
            /\ txt # <<>>
            /\ ~starts_with_newline(txt)
         THEN Some(<<NL>>)
         ELSE None

IsMultiLine(n) == RowOf(end_byte(n)) > RowOf(start_byte(n))

\* a padding without the rule for a list of one child that spans several lines
get_insertion_padding_NoSingleChild(b, txt, is_first) ==
    CASE b.v = "List" ->
            LET ch == children_by_field_id(b.node, b.field)
            IN  IF ch = <<>> THEN None ELSE calculate_padding(ch, txt, is_first)
      [] b.v = "Node" ->
            IF /\ is_statement(b.node)
               /\ ~ends_with_newline(node_text(b.node))
               /\ ~starts_with_newline(txt)
            THEN Some(<<NL>>)
            ELSE None
      [] OTHER -> None

get_insertion_padding(b, txt, is_first) ==
    CASE b.v = "List" ->
            LET ch == children_by_field_id(b.node, b.field)
                cp == calculate_padding(ch, txt, is_first)
            IN  IF ch = <<>>
                THEN None
                ELSE IF cp.some
                     THEN cp
                     ELSE IF /\ Len(ch) = 1
                             /\ IsMultiLine(ch[1])
                             /\ ~ends_with_newline(node_text(ch[1]))
                             /\ ~starts_with_newline(txt)
                          THEN Some(<<NL>>)
                          ELSE None
      [] b.v = "Node" ->
            IF /\ is_statement(b.node)
               /\ ~ends_with_newline(node_text(b.node))
               /\ ~starts_with_newline(txt)
            THEN Some(<<NL>>)
            ELSE None
      [] OTHER -> None

(***************************************************************************)
(* Effects, patterns and the primitives linearize_binding is built on.     *)
(***************************************************************************)
Lit(t) == [isB |-> FALSE, txt |-> t, b |-> NodeB(0)]
Bind(b) == [isB |-> TRUE, txt |-> <<>>, b |-> b]

Effect(b, k, p) == [binding |-> b, kind |-> k, pattern |-> p]

EffectKinds == {"Rewrite", "Insert"}

Within(r, a) == a[1] <= r[1] /\ r[2] <= a[2]

\* pattern::get_top_level_effects: the effects that apply inside the anchor range
\* and are not nested inside the range of another of them, in their given order.
\* An effect on a binding without a range stays with the node that holds its field.
get_top_level_effects(effs, m, anchor) ==
    LET InRange(e) ==
            IF code_range(e.binding).some
            THEN Within(code_range(e.binding).val, anchor)
            ELSE e.binding.v \in {"Empty", "List"} /\ Within(byte_range(e.binding.node), anchor)
        Nested(e) ==
            /\ code_range(e.binding).some
            /\ \E k \in 1..Len(effs) :
                  /\ InRange(effs[k])
                  /\ code_range(effs[k].binding).some
                  /\ Within(code_range(e.binding).val, code_range(effs[k].binding).val)
                  /\ code_range(effs[k].binding).val # code_range(e.binding).val
        Top(e) == InRange(e) /\ ~Nested(e)
    IN  SelectSeq(effs, Top)

\* Language::align_padding without a distributed indent: the source of the range.
align_padding(r) == Slice(r[1], r[2])

\* Insertion of x into a sequence sorted by descending start, after its equals.
RECURSIVE InsertDesc(_, _)
InsertDesc(sorted, x) ==
    IF sorted = <<>>
    THEN <<x>>
    ELSE IF Head(sorted).s >= x.s
         THEN <<Head(sorted)>> \o InsertDesc(Tail(sorted), x)
         ELSE <<x>> \o sorted

RECURSIVE SortDesc(_)
SortDesc(reps) ==
    IF reps = <<>> THEN <<>> ELSE InsertDesc(SortDesc(SubSeq(reps, 1, Len(reps) - 1)), reps[Len(reps)])

\* One replacement spliced into the code that starts at byte offset off:
\* a Rewrite replaces its range, an Insert goes in at the end of its range.
RECURSIVE ApplyReplacements(_, _, _)
ApplyReplacements(code, off, reps) ==
    IF reps = <<>>
    THEN [ok |-> TRUE, txt |-> code, err |-> ""]
    ELSE LET rep == Head(reps)
             e == rep.e - off
             s == IF rep.kind = "Insert" THEN e ELSE rep.s - off
         IN  IF rep.s < off \/ rep.e < off \/ e > Len(code) \/ s > e
             THEN [ok |-> FALSE, txt |-> <<>>, err |-> "range is out of bounds"]
             ELSE ApplyReplacements(
                      SubSeq(code, 1, s) \o rep.txt \o SubSeq(code, e + 1, Len(code)),
                      off, Tail(reps))

\* inline_snippets::inline_sorted_snippets_with_offset (the text it returns)
inline_sorted_snippets_with_offset(code, off, reps) ==
    ApplyReplacements(code, off, SortDesc(reps))

(***************************************************************************)
(* The memo table.                                                         *)
(***************************************************************************)
EmptyMemo == [r \in {} |-> None]

memo_insert(m, r, v) == [x \in (DOMAIN m) \cup {r} |-> IF x = r THEN v ELSE m[x]]

memo_has(m, r) == r \in DOMAIN m

(***************************************************************************)
(* linearize_binding and MarzanoBinding::linearized_text as a machine of   *)
(* call frames: one frame per active linearize_binding call.               *)
(***************************************************************************)
\* linearized_text: the variants that call linearize_binding, and its range argument
Recursing(b) == b.v = "Node" \/ (b.v = "List" /\ range(b).some)

AnchorRange(b) == IF b.v = "Node" THEN byte_range(b.node) ELSE range(b).val

\* linearized_text: the variants that answer at once
ImmediateText(b) ==
    CASE b.v = "Empty" -> <<>>
      [] b.v = "String" -> Slice(b.range[1], b.range[2])
      [] b.v = "FileName" -> to_string_lossy(b.str)
      [] b.v = "List" -> <<>>
      [] b.v = "ConstantRef" -> constant_to_string(b.str)

\* entry of linearize_binding
NewFrame(r, m) ==
    [range |-> r, effs |-> get_top_level_effects(effects, m, r), i |-> 1,
     pc |-> "effect", j |-> 1, acc |-> <<>>, out |-> <<>>, m0 |-> m]

top == stack[Len(stack)]

SetTop(f) == [stack EXCEPT ![Len(stack)] = f]

CurEffect == top.effs[top.i]

CurRange == code_range(CurEffect.binding)

\* a short-circuit that does not look at the kind of the effect
ShortCircuit_AnyKind(e, m) ==
    /\ code_range(e.binding).some
    /\ memo_has(m, code_range(e.binding).val)

\* no short-circuit: the memo is never consulted
ShortCircuit_Never(e, m) == FALSE

\* a Rewrite whose range the memo already holds is not linearized again
ShortCircuit(e, m) ==
    /\ code_range(e.binding).some
    /\ e.kind = "Rewrite"
    /\ memo_has(m, code_range(e.binding).val)

\* the snippet of a memoized Rewrite: the resolved text, or the aligned source
memo_snippet(m, r) == IF m[r].some THEN m[r].val ELSE align_padding(r)

\* a Rewrite that is taken up without the in-progress mark
mark_in_progress_Skip(e, m) == m

mark_in_progress(e, m) ==
    IF code_range(e.binding).some /\ e.kind = "Rewrite"
    THEN memo_insert(m, code_range(e.binding).val, None)
    ELSE m

\* a Rewrite whose resolved text is stored for ranges new to the memo only
store_resolved_IfAbsent(e, m, res) ==
    IF /\ code_range(e.binding).some
       /\ e.kind = "Rewrite"
       /\ ~memo_has(m, code_range(e.binding).val)
    THEN memo_insert(m, code_range(e.binding).val, Some(res))
    ELSE m

\* a Rewrite whose resolved text is not stored
store_resolved_Forget(e, m, res) == m

store_resolved(e, m, res) ==
    IF code_range(e.binding).some /\ e.kind = "Rewrite"
    THEN memo_insert(m, code_range(e.binding).val, Some(res))
    ELSE m

log_empty_field_rewrite_error(b, lg) ==
    IF b.v \in {"Empty", "List"}
    THEN Append(lg, [level |-> 441, node |-> b.node, field |-> b.field,
                     kind |-> kind_id(b.node)])
    ELSE lg

Done(e, snippet) == [b |-> e.binding, txt |-> snippet, kind |-> e.kind]

\* the replacements of the resolved effects; none when a binding has no position
Replacements(out) ==
    IF \E k \in 1..Len(out) : ~range(out[k].b).some
    THEN None
    ELSE Some([k \in 1..Len(out) |->
                 [kind |-> out[k].kind, s |-> range(out[k].b).val[1],
                  e |-> range(out[k].b).val[2], txt |-> out[k].txt]])

\* the text of the anchor range with the replacements inlined, or the error
FinalText(f) ==
    LET reps == Replacements(f.out)
    IN  IF ~reps.some
        THEN [ok |-> FALSE, txt |-> <<>>, err |-> "binding has no position"]
        ELSE inline_sorted_snippets_with_offset(align_padding(f.range), f.range[1], reps.val)

\* a return that does not memoize the anchor range
store_anchor_Skip(m, r, res) == m

store_anchor(m, r, res) == memo_insert(m, r, Some(res))

\* the same call is already active with the same memo: the recursion never ends
Unbounded(r) ==
    \E k \in 1..Len(stack) : stack[k].range = r /\ stack[k].m0 = memo

NoRequest == [range |-> None, repeat |-> FALSE, prev |-> <<>>, m0 |-> EmptyMemo]

NoQuery == [op |-> "none"]

NoRun == [cmd |-> "none"]

\* a caller asks for the linearized text of a binding
Request(b) ==
    /\ status \in {"idle", "ok", "err"}
    /\ nreq < MaxRequests
    /\ nreq' = nreq + 1
    /\ probe' = 0
    /\ error' = ""
    /\ IF Recursing(b)
       THEN /\ req' = [range |-> Some(AnchorRange(b)),
                       repeat |-> status = "ok" /\ req.range = Some(AnchorRange(b)),
                       prev |-> result, m0 |-> memo]
            /\ stack' = <<NewFrame(AnchorRange(b), memo)>>
            /\ status' = "running"
            /\ result' = <<>>
       ELSE /\ req' = [range |-> None, repeat |-> FALSE, prev |-> result, m0 |-> memo]
            /\ stack' = <<>>
            /\ status' = "ok"
            /\ result' = ImmediateText(b)
    /\ UNCHANGED <<kids, effects, q, memo, logs, tree, plumb>>

\* lines 74-107: one top-level effect is taken up
HandleEffect ==
    /\ status = "running"
    /\ top.pc = "effect"
    /\ top.i <= Len(top.effs)
    /\ IF ShortCircuit(CurEffect, memo)
       THEN /\ stack' = SetTop([top EXCEPT
                          !.out = Append(@, Done(CurEffect, memo_snippet(memo, CurRange.val))),
                          !.i = @ + 1])
            /\ UNCHANGED <<memo, logs, probe>>
       ELSE /\ memo' = mark_in_progress(CurEffect, memo)
            /\ logs' = IF CurRange.some
                       THEN logs
                       ELSE log_empty_field_rewrite_error(CurEffect.binding, logs)
            /\ stack' = SetTop([top EXCEPT !.pc = "pattern", !.j = 1, !.acc = <<>>])
            /\ probe' = probe + 1
    /\ UNCHANGED <<kids, effects, q, status, result, error, req, nreq, tree, plumb>>

CurPart == CurEffect.pattern[top.j]

\* line 108: a part of the pattern that needs no call of linearize_binding
PatternPart ==
    /\ status = "running"
    /\ top.pc = "pattern"
    /\ top.j <= Len(CurEffect.pattern)
    /\ ~(CurPart.isB /\ Recursing(CurPart.b))
    /\ stack' = SetTop([top EXCEPT
                   !.acc = @ \o (IF CurPart.isB THEN ImmediateText(CurPart.b) ELSE CurPart.txt),
                   !.j = @ + 1])
    /\ probe' = probe + (IF CurPart.isB THEN 1 ELSE 0)
    /\ UNCHANGED <<kids, effects, q, memo, logs, status, result, error, req, nreq, tree, plumb>>

\* line 108, lines 410-441: a binding of the pattern calls linearize_binding
Call ==
    /\ status = "running"
    /\ top.pc = "pattern"
    /\ top.j <= Len(CurEffect.pattern)
    /\ CurPart.isB /\ Recursing(CurPart.b)
    /\ ~Unbounded(AnchorRange(CurPart.b))
    /\ stack' = Append(stack, NewFrame(AnchorRange(CurPart.b), memo))
    /\ probe' = probe + 1
    /\ UNCHANGED <<kids, effects, q, memo, logs, status, result, error, req, nreq, tree, plumb>>

\* the same, when the call repeats an active one: the stack is exhausted
Overflow ==
    /\ status = "running"
    /\ top.pc = "pattern"
    /\ top.j <= Len(CurEffect.pattern)
    /\ CurPart.isB /\ Recursing(CurPart.b)
    /\ Unbounded(AnchorRange(CurPart.b))
    /\ status' = "overflow"
    /\ stack' = <<>>
    /\ UNCHANGED <<kids, effects, q, memo, logs, result, error, req, probe, nreq, tree, plumb>>

\* lines 116-121: the pattern of the effect is linearized
PatternDone ==
    /\ status = "running"
    /\ top.pc = "pattern"
    /\ top.j > Len(CurEffect.pattern)
    /\ memo' = store_resolved(CurEffect, memo, top.acc)
    /\ stack' = SetTop([top EXCEPT
                   !.out = Append(@, Done(CurEffect, top.acc)),
                   !.i = @ + 1, !.pc = "effect"])
    /\ UNCHANGED <<kids, effects, q, logs, status, result, error, req, probe, nreq, tree, plumb>>

\* lines 125-163: the replacements are inlined, the anchor memoized, the call returns
Finish ==
    /\ status = "running"
    /\ top.pc = "effect"
    /\ top.i > Len(top.effs)
    /\ FinalText(top).ok
    /\ memo' = store_anchor(memo, top.range, FinalText(top).txt)
    /\ IF Len(stack) = 1
       THEN /\ stack' = <<>>
            /\ status' = "ok"
            /\ result' = FinalText(top).txt
       ELSE /\ stack' = [SubSeq(stack, 1, Len(stack) - 1) EXCEPT
                           ![Len(stack) - 1].acc = @ \o FinalText(top).txt,
                           ![Len(stack) - 1].j = @ + 1]
            /\ UNCHANGED <<status, result>>
    /\ UNCHANGED <<kids, effects, q, logs, error, req, probe, nreq, tree, plumb>>

\* lines 130, 160: an error leaves every active call
Fail ==
    /\ status = "running"
    /\ top.pc = "effect"
    /\ top.i > Len(top.effs)
    /\ ~FinalText(top).ok
    /\ stack' = <<>>
    /\ status' = "err"
    /\ error' = FinalText(top).err
    /\ UNCHANGED <<kids, effects, q, memo, logs, result, req, probe, nreq, tree, plumb>>

(***************************************************************************)
(* The inputs of the linearization: small trees and effect sets.           *)
(***************************************************************************)
Ident(t) == [kind |-> "identifier", field |-> 1, named |-> TRUE, text |-> t]

LinTrees == { <<Ident(<<"a">>)>>, <<Ident(<<"a">>), Ident(<<"b">>)>> }

LinNodes(ks) == {NodeB(n) : n \in 0..Len(ks)}

LinPatterns(ks) ==
    {<<Lit(<<"x">>)>>} \cup {<<Bind(b)>> : b \in LinNodes(ks)}
        \cup {<<Bind(NodeB(1)), Lit(<<"y">>)>>}

LinEffects(ks) ==
    {Effect(b, k, p) : b \in LinNodes(ks) \cup {EmptyB(0, 2)}, k \in EffectKinds,
                       p \in LinPatterns(ks)}

\* Effects on overlapping ranges of one anchor are outside the contract of
\* linearize_binding: two effects of a set never share a binding range.
Overlap(e1, e2) ==
    code_range(e1.binding).some /\ code_range(e1.binding) = code_range(e2.binding)

LinEffectSets(ks) ==
    {<<>>} \cup {<<e>> : e \in LinEffects(ks)}
           \cup {p \in LinEffects(ks) \X LinEffects(ks) : ~Overlap(p[1], p[2])}

Anchors == LinNodes(kids) \cup {ListB(0, 1), EmptyB(0, 2)}

Init ==
    /\ kids \in LinTrees
    /\ effects \in LinEffectSets(kids)
    /\ q = NoQuery
    /\ memo = EmptyMemo
    /\ logs = <<>>
    /\ stack = <<>>
    /\ status = "idle"
    /\ result = <<>>
    /\ error = ""
    /\ req = NoRequest
    /\ probe = 0
    /\ nreq = 0
    /\ tree = <<>>
    /\ plumb = NoRun

Next ==
    \/ \E b \in Anchors : Request(b)
    \/ HandleEffect
    \/ PatternPart
    \/ Call
    \/ Overflow
    \/ PatternDone
    \/ Finish
    \/ Fail

Spec == Init /\ [][Next]_vars

(***************************************************************************)
(* Queries on bindings: a caller applies one operation of the Binding      *)
(* trait to a binding of a tree, and q records the call and its result.    *)
(* Each behaviour makes one call: the operations change no state.          *)
(***************************************************************************)
KidTypes ==
    { Ident(<<"a">>), Ident(<<"b">>),
      [kind |-> ",", field |-> 1, named |-> FALSE, text |-> <<",">>],
      [kind |-> "comment", field |-> 0, named |-> TRUE, text |-> <<"c">>],
      [kind |-> "statement", field |-> 2, named |-> TRUE, text |-> <<"s">>],
      [kind |-> "statement", field |-> 2, named |-> TRUE, text |-> <<"s", NL>>],
      [kind |-> "statement", field |-> 2, named |-> TRUE, text |-> <<"s", NL, "t">>] }

RECURSIVE TreesUpTo(_)
TreesUpTo(n) ==
    IF n = 0
    THEN {<<>>}
    ELSE TreesUpTo(n - 1) \cup
         {Append(t, k) : t \in {u \in TreesUpTo(n - 1) : Len(u) = n - 1}, k \in KidTypes}

Paths == {<<"a">>, <<"f">>}

Constants == {<<>>, <<"a">>}

\* literal ranges of at most one byte at the start of the source
StringRanges == {<<s, e>> \in (0..1) \X (0..2) : s <= e /\ e <= s + 1 /\ e <= Len(source)}

Bindings ==
    {NodeB(n) : n \in NodeIds}
        \cup {ListB(0, f) : f \in FieldIds} \cup {EmptyB(0, f) : f \in FieldIds}
        \cup {StringB(r) : r \in StringRanges}
        \cup {FileNameB(p) : p \in Paths} \cup {ConstantRefB(c) : c \in Constants}

InsertTexts == {<<>>, <<"x">>, <<NL, "x">>}

Query(op, a, out) ==
    [op |-> op, a |-> a, b |-> a, txt |-> <<>>, is_first |-> FALSE, out |-> out]

QEquivalent(a, b) ==
    /\ q = NoQuery
    /\ q' = [Query("is_equivalent_to", a, is_equivalent_to(a, b)) EXCEPT !.b = b]
    /\ UNCHANGED <<kids, effects, memo, logs, stack, status, result, error, req, probe, nreq, tree, plumb>>

QPadding(a, txt, is_first) ==
    /\ q = NoQuery
    /\ q' = [Query("get_insertion_padding", a, get_insertion_padding(a, txt, is_first))
                EXCEPT !.txt = txt, !.is_first = is_first]
    /\ UNCHANGED <<kids, effects, memo, logs, stack, status, result, error, req, probe, nreq, tree, plumb>>

QTruthy(a) ==
    /\ q = NoQuery
    /\ q' = Query("is_truthy", a, is_truthy(a))
    /\ UNCHANGED <<kids, effects, memo, logs, stack, status, result, error, req, probe, nreq, tree, plumb>>

QRangeNodes(a) ==
    /\ q = NoQuery
    /\ a.v = "List"
    /\ q' = Query("get_range_nodes_for_list", a, get_range_nodes_for_list(a.node, a.field))
    /\ UNCHANGED <<kids, effects, memo, logs, stack, status, result, error, req, probe, nreq, tree, plumb>>

QRange(a) ==
    /\ q = NoQuery
    /\ q' = Query("range", a, range(a))
    /\ UNCHANGED <<kids, effects, memo, logs, stack, status, result, error, req, probe, nreq, tree, plumb>>

QPosition(a) ==
    /\ q = NoQuery
    /\ q' = Query("position", a, position(a))
    /\ UNCHANGED <<kids, effects, memo, logs, stack, status, result, error, req, probe, nreq, tree, plumb>>

QCodeRange(a) ==
    /\ q = NoQuery
    /\ q' = Query("code_range", a, code_range(a))
    /\ UNCHANGED <<kids, effects, memo, logs, stack, status, result, error, req, probe, nreq, tree, plumb>>

QSingleton(a) ==
    /\ q = NoQuery
    /\ q' = Query("singleton", a, singleton(a))
    /\ UNCHANGED <<kids, effects, memo, logs, stack, status, result, error, req, probe, nreq, tree, plumb>>

QEq(a, b) ==
    /\ q = NoQuery
    /\ q' = [Query("eq", a, eq(a, b)) EXCEPT !.b = b]
    /\ UNCHANGED <<kids, effects, memo, logs, stack, status, result, error, req, probe, nreq, tree, plumb>>

InitBinding ==
    /\ kids \in TreesUpTo(MaxKids)
    /\ effects = <<>>
    /\ q = NoQuery
    /\ memo = EmptyMemo
    /\ logs = <<>>
    /\ stack = <<>>
    /\ status = "idle"
    /\ result = <<>>
    /\ error = ""
    /\ req = NoRequest
    /\ probe = 0
    /\ nreq = 0
    /\ tree = <<>>
    /\ plumb = NoRun

NextBinding ==
    \/ q = NoQuery /\ \E a \in Bindings, b \in Bindings : QEquivalent(a, b)
    \/ q = NoQuery /\ \E a \in Bindings, txt \in InsertTexts, f \in BOOLEAN : QPadding(a, txt, f)
    \/ q = NoQuery /\ \E a \in Bindings : QTruthy(a)
    \/ q = NoQuery /\ \E a \in Bindings : QRangeNodes(a)
    \/ q = NoQuery /\ \E a \in Bindings : QRange(a)
    \/ q = NoQuery /\ \E a \in Bindings : QPosition(a)
    \/ q = NoQuery /\ \E a \in Bindings : QCodeRange(a)
    \/ q = NoQuery /\ \E a \in Bindings : QSingleton(a)
    \/ q = NoQuery /\ \E a \in Bindings, b \in Bindings : QEq(a, b)

SpecBinding == InitBinding /\ [][NextBinding]_vars

(***************************************************************************)
(* Properties of the operations on bindings, checked under SpecBinding.    *)
(***************************************************************************)
\* the children of the binding's parent that sit in its field
FieldKids(b) == {i \in 1..Len(kids) : b.node = 0 /\ kids[i].field = b.field}

\* the matched children of a list: the items list_items yields
MatchedChildren(b) == {i \in FieldKids(b) : kids[i].named}

MinOf(S) == CHOOSE i \in S : \A j \in S : i <= j

MaxOf(S) == CHOOSE i \in S : \A j \in S : j <= i

HasNewline(t) == \E i \in 1..Len(t) : t[i] = NL

\* C1: is_equivalent_to(a, b) and is_equivalent_to(b, a) return the same boolean
\* for every pair of bindings, of the same or of different variants.
C1_EquivalenceSymmetric ==
    q.op = "is_equivalent_to" => q.out = is_equivalent_to(q.b, q.a)

\* C4: get_insertion_padding with empty insertion text never returns a newline,
\* for every binding and both values of is_first.
C4_NoNewlineForEmptyText ==
    (q.op = "get_insertion_padding" /\ q.txt = <<>>) =>
        (~q.out.some \/ ~HasNewline(q.out.val))

\* C8: a List binding is truthy exactly when its field has at least one matched
\* child; Empty is falsy; Node, String and FileName bindings are truthy.
C8_Truthiness ==
    q.op = "is_truthy" =>
        CASE q.a.v = "List" -> q.out = (Cardinality(MatchedChildren(q.a)) > 0)
          [] q.a.v = "Empty" -> q.out = FALSE
          [] q.a.v \in {"Node", "String", "FileName"} -> q.out = TRUE
          [] OTHER -> TRUE

C8_Witness ==
    /\ q.op = "is_truthy"
    /\ q.a.v = "List"
    /\ q.out = TRUE
    /\ Cardinality(MatchedChildren(q.a)) = 1
    /\ Cardinality(FieldKids(q.a)) = 2

\* C9: for a field with children, the leading node is the first child moved back
\* over all contiguous preceding comments and the trailing node the last child
\* moved forward over all contiguous following comments, each stopping at the
\* first non-comment sibling or the end of the chain; no children gives None.
C9_BoundingNodes ==
    q.op = "get_range_nodes_for_list" =>
        IF FieldKids(q.a) = {}
        THEN q.out = None
        ELSE /\ q.out.some
             /\ LET first == MinOf(FieldKids(q.a))
                    last == MaxOf(FieldKids(q.a))
                    lead == q.out.val[1]
                    trail == q.out.val[2]
                IN  /\ lead \in 1..first
                    /\ \A k \in lead..(first - 1) : kids[k].kind = "comment"
                    /\ lead = 1 \/ kids[lead - 1].kind # "comment"
                    /\ trail \in last..Len(kids)
                    /\ \A k \in (last + 1)..trail : kids[k].kind = "comment"
                    /\ trail = Len(kids) \/ kids[trail + 1].kind # "comment"

C9_Witness ==
    /\ q.op = "get_range_nodes_for_list"
    /\ q.out.some
    /\ q.out.val[1] = 2
    /\ q.out.val[1] < MinOf(FieldKids(q.a))

\* C10: range, position and code_range return None for Empty, FileName and
\* ConstantRef bindings, and Some for Node and String bindings and for List
\* bindings whose field has at least one child.
C10_RangeContract ==
    q.op \in {"range", "position", "code_range"} =>
        /\ q.a.v \in {"Empty", "FileName", "ConstantRef"} => q.out = None
        /\ q.a.v \in {"Node", "String"} => q.out.some
        /\ (q.a.v = "List" /\ FieldKids(q.a) # {}) => q.out.some

C10_Witness ==
    /\ q.op = "range"
    /\ q.a.v = "List"
    /\ FieldKids(q.a) # {}
    /\ MatchedChildren(q.a) = {}
    /\ q.out.some

\* C11 as stated: singleton is the node of a Node binding, the only child of a
\* List whose field has exactly one child, and None for every other binding.
C11_SingletonOneChild ==
    q.op = "singleton" =>
        CASE q.a.v = "Node" -> q.out = Some(q.a.node)
          [] q.a.v = "List" ->
                IF Cardinality(FieldKids(q.a)) = 1
                THEN q.out = Some(MinOf(FieldKids(q.a)))
                ELSE q.out = None
          [] OTHER -> q.out = None

\* C11 as amended: for a List, singleton is the only named child of the field
\* when the field has exactly one named child, whatever unnamed children it has.
C11_SingletonOneNamedChild ==
    q.op = "singleton" =>
        CASE q.a.v = "Node" -> q.out = Some(q.a.node)
          [] q.a.v = "List" ->
                IF Cardinality(MatchedChildren(q.a)) = 1
                THEN q.out = Some(MinOf(MatchedChildren(q.a)))
                ELSE q.out = None
          [] OTHER -> q.out = None

C11_Witness ==
    /\ q.op = "singleton"
    /\ q.a.v = "List"
    /\ Cardinality(FieldKids(q.a)) = 2
    /\ Cardinality(MatchedChildren(q.a)) = 1
    /\ q.out = Some(MaxOf(FieldKids(q.a)))

\* C13: a List whose field has one child, spanning more than one line and not
\* ending in a newline, gets a padding with a newline for an insertion text
\* that does not start with a newline; a List whose field is empty gets None.
C13_SingleMultiLineChild ==
    (q.op = "get_insertion_padding" /\ q.a.v = "List") =>
        /\ FieldKids(q.a) = {} => q.out = None
        /\ (/\ Cardinality(FieldKids(q.a)) = 1
            /\ HasNewline(kids[MinOf(FieldKids(q.a))].text)
            /\ kids[MinOf(FieldKids(q.a))].text[Len(kids[MinOf(FieldKids(q.a))].text)] # NL
            /\ (q.txt = <<>> \/ q.txt[1] # NL)) =>
                (q.out.some /\ HasNewline(q.out.val))

C13_Witness ==
    /\ q.op = "get_insertion_padding"
    /\ q.a.v = "List"
    /\ Cardinality(FieldKids(q.a)) = 1
    /\ Len(kids) = 3
    /\ kids[MinOf(FieldKids(q.a))].text = <<"s", NL, "t">>
    /\ q.txt = <<"x">>
    /\ q.out = Some(<<NL>>)

\* C16: == between bindings of different variants is false, except between a
\* Node and a String binding, which are equal when the text of the node is the
\* slice of the literal range.
C16_CrossVariantEquality ==
    (q.op = "eq" /\ q.a.v # q.b.v) =>
        IF {q.a.v, q.b.v} = {"Node", "String"}
        THEN q.out = (text(q.a) = text(q.b))
        ELSE q.out = FALSE

\* C19 as stated: a List binding is truthy exactly when it has a range.
C19_TruthyIffRange ==
    (q.op = "is_truthy" /\ q.a.v = "List") => (q.out = range(q.a).some)

\* C19 as amended: a truthy List binding has a range; a List binding with a
\* range is truthy when its field has a named child and falsy when the field
\* holds unnamed children only.
C19_TruthyHasRange ==
    (q.op = "is_truthy" /\ q.a.v = "List") =>
        /\ q.out => range(q.a).some
        /\ range(q.a).some => (q.out = (MatchedChildren(q.a) # {}))

C19_Witness ==
    /\ q.op = "is_truthy"
    /\ q.a.v = "List"
    /\ q.out = FALSE
    /\ range(q.a).some
    /\ range(q.a).val[1] < range(q.a).val[2]

Agree(r, c, p) ==
    /\ r.some = c.some
    /\ c.some = p.some
    /\ r.some =>
          /\ r.val[1] = c.val[1] /\ r.val[1] = p.val.start_byte
          /\ r.val[2] = c.val[2] /\ r.val[2] = p.val.end_byte

\* C20: range, code_range and position of a binding are all None or all Some,
\* and when Some they start and end at the same bytes; for a List these are the
\* start of the leading and the end of the trailing bounding node.
C20_RangesAgree ==
    /\ q.op = "range" => Agree(q.out, code_range(q.a), position(q.a))
    /\ q.op = "code_range" => Agree(range(q.a), q.out, position(q.a))
    /\ q.op = "position" => Agree(range(q.a), code_range(q.a), q.out)
    /\ (q.op \in {"range", "code_range"} /\ q.a.v = "List" /\ q.out.some) =>
          LET rn == get_range_nodes_for_list(q.a.node, q.a.field).val
          IN  q.out.val = <<start_byte(rn[1]), end_byte(rn[2])>>

\* the position of a list that a comment before its first child extends
C20_Witness ==
    /\ q.op = "position"
    /\ q.a.v = "List"
    /\ q.out.some
    /\ q.out.val.start_byte < start_byte(MinOf(FieldKids(q.a)))
    /\ q.out.val.end_byte = Len(source)
    /\ q.out.val.end[1] = 2

(***************************************************************************)
(* Properties of the linearization, checked under Spec.                    *)
(***************************************************************************)
TopLevel(r) == get_top_level_effects(effects, memo, r)

AllRewrites(effs) == \A k \in 1..Len(effs) : effs[k].kind = "Rewrite"

\* C2 as stated: a second request for the same anchor range returns the text of
\* the first and makes no recursive linearized_text / linearize_binding call.
C2_SecondRequestNoDescent ==
    (status = "ok" /\ req.repeat) => (result = req.prev /\ probe = 0)

\* C2 as amended: a second request for the same anchor range returns the text of
\* the first, and makes no recursive call when every top-level effect of the
\* anchor is a Rewrite; the pattern of an Insert is linearized on every request.
C2_SecondRequestSameText ==
    (status = "ok" /\ req.repeat) =>
        /\ result = req.prev
        /\ AllRewrites(TopLevel(req.range.val)) => probe = 0

C2_Witness ==
    /\ status = "ok"
    /\ req.repeat
    /\ probe = 0
    /\ TopLevel(req.range.val) # <<>>
    /\ result # Slice(req.range.val[1], req.range.val[2])

\* C3: a top-level effect on a binding without a range is logged and skipped:
\* the request records a diagnostic and does not fail with "binding has no
\* position".
C3_EmptyFieldRecoverable ==
    (status \in {"ok", "err"} /\ req.range.some) =>
        /\ error # "binding has no position"
        /\ (\E k \in 1..Len(TopLevel(req.range.val)) :
                ~code_range(TopLevel(req.range.val)[k].binding).some) => logs # <<>>

\* C5: a Rewrite effect follows the three-state protocol of the memo: absent,
\* its range is marked in progress and its pattern linearized, and the resolved
\* text is stored afterwards; resolved, the text is reused and the pattern not
\* linearized; in progress, the aligned source of the range is used, the pattern
\* not linearized and the memo left as it is.
C5_Step ==
    LET next == stack'[Len(stack)]
        r == CurRange.val
        Reused(t) == /\ memo' = memo
                     /\ next.pc = "effect"
                     /\ next.i = top.i + 1
                     /\ next.out[Len(next.out)].txt = t
    IN  /\ (/\ status = "running"
            /\ top.pc = "effect"
            /\ top.i <= Len(top.effs)
            /\ CurEffect.kind = "Rewrite"
            /\ CurRange.some) =>
               IF r \notin DOMAIN memo
               THEN /\ DOMAIN memo' = DOMAIN memo \cup {r}
                    /\ memo'[r] = None
                    /\ \A x \in DOMAIN memo : memo'[x] = memo[x]
                    /\ next.pc = "pattern"
                    /\ next.j = 1
               ELSE IF memo[r].some
                    THEN Reused(memo[r].val)
                    ELSE Reused(Slice(r[1], r[2]))
        /\ (/\ status = "running"
            /\ top.pc = "pattern"
            /\ top.j > Len(CurEffect.pattern)
            /\ CurEffect.kind = "Rewrite"
            /\ CurRange.some) =>
               /\ memo'[r] = Some(top.acc)
               /\ next.pc = "effect"
               /\ next.out[Len(next.out)].txt = top.acc

C5_MemoProtocol == [][C5_Step]_vars

\* a Rewrite that met its own in-progress mark has just been answered from the source
C5_Witness ==
    /\ status = "running"
    /\ top.pc = "effect"
    /\ top.i > 1
    /\ LET e == top.effs[top.i - 1]
           r == code_range(e.binding)
       IN  /\ e.kind = "Rewrite"
           /\ r.some
           /\ memo_has(memo, r.val)
           /\ ~memo[r.val].some
           /\ top.out[top.i - 1].txt = Slice(r.val[1], r.val[2])

\* the pattern of literals and one inner binding, with the memo's text for it
RECURSIVE Substituted(_, _)
Substituted(pattern, t) ==
    IF pattern = <<>>
    THEN <<>>
    ELSE (IF Head(pattern).isB THEN t ELSE Head(pattern).txt) \o Substituted(Tail(pattern), t)

\* an outer Rewrite inside the anchor whose pattern holds the binding of an inner one
NestedRewrite(eo, ei) ==
    /\ eo.kind = "Rewrite" /\ ei.kind = "Rewrite"
    /\ code_range(eo.binding).some /\ code_range(ei.binding).some
    /\ Within(code_range(eo.binding).val, req.range.val)
    /\ Within(code_range(ei.binding).val, code_range(eo.binding).val)
    /\ code_range(ei.binding) # code_range(eo.binding)
    /\ \E k \in 1..Len(eo.pattern) : eo.pattern[k].isB
    /\ \A k \in 1..Len(eo.pattern) : eo.pattern[k].isB => eo.pattern[k].b = ei.binding

\* C6: when a request returns Ok the memo maps its anchor range to the text
\* returned; after a nested rewrite on a fresh memo the memo holds the resolved
\* text of the outer and of the inner range, the outer text built from the inner.
C6_AnchorMemoized ==
    (status = "ok" /\ req.range.some) =>
        /\ memo_has(memo, req.range.val)
        /\ memo[req.range.val] = Some(result)
        /\ nreq = 1 =>
              \A i \in 1..Len(effects), j \in 1..Len(effects) :
                  NestedRewrite(effects[i], effects[j]) =>
                      LET ro == code_range(effects[i].binding).val
                          ri == code_range(effects[j].binding).val
                      IN  /\ memo_has(memo, ro) /\ memo[ro].some
                          /\ memo_has(memo, ri) /\ memo[ri].some
                          /\ memo[ro].val = Substituted(effects[i].pattern, memo[ri].val)

C6_Witness ==
    /\ status = "ok"
    /\ req.range.some
    /\ nreq = 1
    /\ \E i \in 1..Len(effects), j \in 1..Len(effects) :
          /\ NestedRewrite(effects[i], effects[j])
          /\ Len(effects[i].pattern) = 2
          /\ memo[code_range(effects[j].binding).val] = Some(<<"x">>)
          /\ result = <<"x", "y">>

\* C7: every request ends, with a text or with an error: no call of
\* linearize_binding repeats an active call on an unchanged memo.
C7_Terminates == status # "overflow"

\* C15: an Insert effect is never answered from the memo: whatever the memo
\* holds for its range its pattern is linearized, and taking up the effect and
\* finishing its pattern both leave the memo as it is.
C15_Step ==
    LET next == stack'[Len(stack)]
    IN  /\ (/\ status = "running"
            /\ top.pc = "effect"
            /\ top.i <= Len(top.effs)
            /\ CurEffect.kind = "Insert") =>
               /\ memo' = memo
               /\ next.pc = "pattern"
               /\ next.i = top.i
               /\ next.j = 1
        /\ (/\ status = "running"
            /\ top.pc = "pattern"
            /\ top.j > Len(CurEffect.pattern)
            /\ CurEffect.kind = "Insert") =>
               /\ memo' = memo
               /\ next.out[Len(next.out)].txt = top.acc

C15_InsertNotMemoized == [][C15_Step]_vars

\* the pattern of an Insert is being linearized although the memo holds its range
C15_Witness ==
    /\ status = "running"
    /\ top.pc = "pattern"
    /\ top.i <= Len(top.effs)
    /\ CurEffect.kind = "Insert"
    /\ CurRange.some
    /\ memo_has(memo, CurRange.val)
    /\ memo[CurRange.val].some

\* C17: no step removes an entry of the memo or turns a resolved entry back
\* into the in-progress sentinel: the sentinel is written for absent ranges only.
C17_Step ==
    /\ \A r \in DOMAIN memo : r \in DOMAIN memo' /\ (memo[r].some => memo'[r].some)
    /\ \A r \in DOMAIN memo' : (r \notin DOMAIN memo) \/ memo'[r].some \/ memo'[r] = memo[r]

C17_MemoMonotone == [][C17_Step]_vars

\* a repeated request has just reused the resolved text of a Rewrite
C17_Witness ==
    /\ status = "running"
    /\ nreq = 2
    /\ Len(stack) = 1
    /\ top.pc = "effect"
    /\ top.i > 1
    /\ LET e == top.effs[top.i - 1]
           r == code_range(e.binding)
       IN  /\ e.kind = "Rewrite"
           /\ r.some
           /\ memo_has(req.m0, r.val)
           /\ req.m0[r.val].some
           /\ memo[r.val] = req.m0[r.val]
           /\ top.out[top.i - 1].txt = memo[r.val].val

\* the ranges the request in hand has added to the memo
Marked == DOMAIN memo \ DOMAIN req.m0

\* C18: when a request returns Ok every range it has added to the memo, by
\* itself or in a nested call, holds a resolved text: no sentinel of its own
\* is left behind.
C18_NoSentinelLeft ==
    (status = "ok" /\ req.range.some) => \A r \in Marked : memo[r].some

\* an Ok return after a Rewrite met its own sentinel in a nested call
C18_Witness ==
    /\ status = "ok"
    /\ req.range.some
    /\ Cardinality(Marked) = 2
    /\ \E k \in 1..Len(effects) :
          /\ effects[k].kind = "Rewrite"
          /\ code_range(effects[k].binding).some
          /\ code_range(effects[k].binding).val \in Marked
          /\ code_range(effects[k].binding) # req.range
          /\ \E j \in 1..Len(effects[k].pattern) :
                /\ effects[k].pattern[j].isB
                /\ effects[k].pattern[j].b = effects[k].binding

(***************************************************************************)
(* Suppression.  is_suppressed looks at a tree of any depth: tree[i] is    *)
(* the node i with its parent (0 for the root, node 1), whether the        *)
(* language classes it as a comment, and whether is_suppress_comment       *)
(* accepts it for the target range and the pattern name of the query.      *)
(***************************************************************************)
MaxNodes == 4

TreeNode(p, k, a) == [parent |-> p, kind |-> k, suppress |-> a]

RECURSIVE SuppressTrees(_)
SuppressTrees(n) ==
    IF n = 0
    THEN {<<>>}
    ELSE SuppressTrees(n - 1) \cup
         {Append(t, TreeNode(p, k, a)) :
            t \in {u \in SuppressTrees(n - 1) : Len(u) = n - 1},
            p \in (IF n = 1 THEN {0} ELSE 1..(n - 1)),
            k \in {"other", "comment"},
            a \in BOOLEAN}

tree_children(n) == {i \in 1..Len(tree) : tree[i].parent = n}

\* the node and its ancestors, as the iterator of NodeWithSource yields them
RECURSIVE ancestors(_)
ancestors(n) == IF n = 0 THEN {} ELSE {n} \cup ancestors(tree[n].parent)

is_suppress_comment(c) == tree[c].suppress

\* a suppression that looks at the children of the node and of its ancestors only
is_suppressed_NoChildren(b) ==
    IF b.v \in {"String", "FileName", "ConstantRef"}
    THEN FALSE
    ELSE \E n \in ancestors(b.node) :
            \E c \in tree_children(n) : tree[c].kind = "comment" /\ is_suppress_comment(c)

is_suppressed(b) ==
    IF b.v \in {"String", "FileName", "ConstantRef"}
    THEN FALSE
    ELSE \E n \in tree_children(b.node) \cup ancestors(b.node) :
            \E c \in tree_children(n) : tree[c].kind = "comment" /\ is_suppress_comment(c)

SuppressBindings ==
    {NodeB(n) : n \in 1..Len(tree)}
        \cup {ListB(n, 1) : n \in 1..Len(tree)} \cup {EmptyB(n, 1) : n \in 1..Len(tree)}
        \cup {StringB(<<0, 0>>), FileNameB(<<"f">>), ConstantRefB(<<"a">>)}

QSuppressed(a) ==
    /\ q = NoQuery
    /\ q' = Query("is_suppressed", a, is_suppressed(a))
    /\ UNCHANGED <<kids, effects, memo, logs, stack, status, result, error, req, probe, nreq, tree, plumb>>

InitSuppress ==
    /\ kids = <<>>
    /\ effects = <<>>
    /\ q = NoQuery
    /\ memo = EmptyMemo
    /\ logs = <<>>
    /\ stack = <<>>
    /\ status = "idle"
    /\ result = <<>>
    /\ error = ""
    /\ req = NoRequest
    /\ probe = 0
    /\ nreq = 0
    /\ tree \in SuppressTrees(MaxNodes)
    /\ plumb = NoRun

NextSuppress == \E a \in SuppressBindings : QSuppressed(a)

SpecSuppress == InitSuppress /\ [][NextSuppress]_vars

RECURSIVE descendants(_)
descendants(n) ==
    tree_children(n) \cup UNION {descendants(c) : c \in tree_children(n)}

AcceptedComments == {c \in 1..Len(tree) : tree[c].kind = "comment" /\ tree[c].suppress}

HasNode(b) == b.v \in {"Node", "List", "Empty"}

\* C12 as stated: a binding with a node is suppressed exactly when an accepted
\* comment is a child of the node, of one of its ancestors or of one of its
\* descendants; String, FileName and ConstantRef bindings are never suppressed.
C12_SuppressedByAnyDescendant ==
    q.op = "is_suppressed" =>
        IF HasNode(q.a)
        THEN q.out = (\E c \in AcceptedComments :
                        tree[c].parent \in ancestors(q.a.node) \cup descendants(q.a.node))
        ELSE q.out = FALSE

\* C12 as amended: the comments looked at are the children of the node, of its
\* ancestors and of its children; deeper descendants are not visited.
C12_SuppressedByChildOfChild ==
    q.op = "is_suppressed" =>
        IF HasNode(q.a)
        THEN q.out = (\E c \in AcceptedComments :
                        tree[c].parent \in ancestors(q.a.node) \cup tree_children(q.a.node))
        ELSE q.out = FALSE

\* a node suppressed by a comment that is its immediate sibling and by nothing else
C12_Witness ==
    /\ q.op = "is_suppressed"
    /\ q.a.v = "Node"
    /\ q.out = TRUE
    /\ Cardinality(AcceptedComments) = 1
    /\ \E c \in AcceptedComments :
          c # q.a.node /\ tree[c].parent = tree[q.a.node].parent /\ tree[c].parent # 0

(***************************************************************************)
(* run_plumbing of crates/cli/src/commands/plumbing.rs.  An arm of the     *)
(* match is a sequence of calls.  A call ends "ok", with a GoodError       *)
(* ("good") or with another error ("bad"); outs lists what it can end      *)
(* with.  mode says what the arm does with an error of the call: "try" is  *)
(* the ? operator, which returns the error from run_plumbing at once;      *)
(* "value" makes the call's result the value of the arm; "swallow" drops   *)
(* the error; "hold" keeps it in e; "rethrow" is return Err(e); "return"   *)
(* is return Ok(()).  cond names what must hold for the call to be made.   *)
(***************************************************************************)
MaxLines == 2

Step(call, outs, mode, cond) == [call |-> call, outs |-> outs, mode |-> mode, cond |-> cond]

\* what a helper (input, configuration, file system) can end with
Io == {"ok", "bad"}

\* what a function doing the work of a subcommand can end with
Any == {"ok", "good", "bad"}

read_input == Step("read_input", Io, "try", "always")

from_str == Step("serde_json::from_str", Io, "try", "always")

ApplyArm ==
    << read_input, from_str,
       Step("init_config_from_path", Io, "try", "paths"),
       Step("get_grit_files_from", Io, "try", "paths"),
       Step("get_pattern_libraries", Io, "try", "always"),
       Step("run_apply_pattern", Any, "value", "always") >>

ParseArm == << read_input, from_str, Step("run_parse", Any, "value", "always") >>

AnalyticsArm ==
    << read_input,
       Step("track_event_line", Any, "swallow", "lines"),
       Step("Ok(())", {"ok"}, "value", "always") >>

CheckArm ==
    << read_input, from_str,
       Step("return Ok(())", {"ok"}, "return", "no_paths"),
       Step("init_global_grit_modules", Io, "try", "always"),
       Step("run_check", Any, "value", "always") >>

ListArm ==
    << read_input, from_str,
       Step("return Ok(())", {"ok"}, "return", "no_parent"),
       Step("resolve_from", Io, "try", "always"),
       Step("find_grit_modules_dir", Io, "try", "resolved_empty"),
       Step("bail!", {"bad"}, "try", "resolved_empty"),
       Step("list_applyables", Any, "value", "always") >>

TestArm ==
    << read_input, from_str,
       Step("current_dir", Io, "try", "always"),
       Step("get_grit_files_from", Io, "try", "always"),
       Step("get_marzano_pattern_test_results", Any, "try", "always"),
       Step("match res", Io, "value", "always") >>

RunArm ==
    << read_input,
       Step("create_emitter", Io, "try", "always"),
       Step("current_dir", Io, "try", "always"),
       Step("Updater::from_current_bin", Io, "try", "always"),
       Step("get_valid_auth", Io, "swallow", "always"),
       Step("find_workflow_file_from", Io, "hold", "always"),
       Step("emit_log", Io, "try", "held"),
       Step("return Err(e)", {"ok"}, "rethrow", "held"),
       Step("run_apply_migration", Any, "try", "always"),
       Step("Ok(())", {"ok"}, "value", "always") >>

PlumbingArgs == {"Apply", "Parse", "Analytics", "Check", "List", "Test", "Run"}

Arm(cmd) ==
    CASE cmd = "Apply" -> ApplyArm
      [] cmd = "Parse" -> ParseArm
      [] cmd = "Analytics" -> AnalyticsArm
      [] cmd = "Check" -> CheckArm
      [] cmd = "List" -> ListArm
      [] cmd = "Test" -> TestArm
      [] cmd = "Run" -> RunArm

\* what the input read from stdin and the file system hold
PlumbingInputs ==
    [paths_empty : BOOLEAN, no_parent : BOOLEAN, resolved_empty : BOOLEAN, lines : 0..MaxLines]

CurStep == Arm(plumb.cmd)[plumb.pc]

Applies(st) ==
    CASE st.cond = "always" -> TRUE
      [] st.cond = "paths" -> ~plumb.input.paths_empty
      [] st.cond = "no_paths" -> plumb.input.paths_empty
      [] st.cond = "no_parent" -> plumb.input.no_parent
      [] st.cond = "resolved_empty" -> plumb.input.resolved_empty
      [] st.cond = "lines" -> plumb.line < plumb.input.lines
      [] st.cond = "held" -> plumb.e # "ok"

InArm == plumb # NoRun /\ plumb.ret = "running" /\ plumb.result = "none"

\* the call of run_plumbing with its arguments
run_plumbing(cmd, input) ==
    /\ plumb = NoRun
    /\ plumb' = [cmd |-> cmd, input |-> input, pc |-> 1, line |-> 0, e |-> "ok",
                 stderr |-> 0, result |-> "none", failed |-> "no", ret |-> "running"]
    /\ UNCHANGED <<kids, effects, q, memo, logs, stack, status, result, error, req, probe, nreq, tree>>

\* a call whose condition does not hold is not made
SkipStep ==
    /\ InArm
    /\ ~Applies(CurStep)
    /\ plumb' = [plumb EXCEPT !.pc = @ + 1]
    /\ UNCHANGED <<kids, effects, q, memo, logs, stack, status, result, error, req, probe, nreq, tree>>

\* the ? operator returns the error from the function: the match on result is not reached
try(o) ==
    IF o = "ok"
    THEN [plumb EXCEPT !.pc = @ + 1]
    ELSE [plumb EXCEPT !.ret = "Err", !.failed = o]

CallStep ==
    /\ InArm
    /\ Applies(CurStep)
    /\ \E o \in CurStep.outs :
          plumb' =
            CASE CurStep.mode = "try" -> try(o)
              [] CurStep.mode = "value" ->
                    [plumb EXCEPT !.result = o, !.failed = IF o = "ok" THEN "no" ELSE o]
              [] CurStep.mode = "swallow" ->
                    [plumb EXCEPT !.pc = IF CurStep.cond = "lines" THEN @ ELSE @ + 1,
                                  !.line = IF CurStep.cond = "lines" THEN @ + 1 ELSE @,
                                  !.stderr = IF o # "ok" /\ CurStep.cond = "lines" THEN @ + 1 ELSE @]
              [] CurStep.mode = "hold" -> [plumb EXCEPT !.pc = @ + 1, !.e = o]
              [] CurStep.mode = "rethrow" -> [plumb EXCEPT !.ret = "Err", !.failed = plumb.e]
              [] CurStep.mode = "return" -> [plumb EXCEPT !.ret = "Ok"]
    /\ UNCHANGED <<kids, effects, q, memo, logs, stack, status, result, error, req, probe, nreq, tree>>

\* the match on result that ends run_plumbing
match_result ==
    IF plumb.result = "ok"
    THEN "Ok"
    ELSE IF plumb.result = "good" THEN "Ok" ELSE "Err"

MatchResult ==
    /\ plumb # NoRun
    /\ plumb.ret = "running"
    /\ plumb.result # "none"
    /\ plumb' = [plumb EXCEPT !.ret = match_result]
    /\ UNCHANGED <<kids, effects, q, memo, logs, stack, status, result, error, req, probe, nreq, tree>>

InitPlumbing ==
    /\ kids = <<>>
    /\ effects = <<>>
    /\ q = NoQuery
    /\ memo = EmptyMemo
    /\ logs = <<>>
    /\ stack = <<>>
    /\ status = "idle"
    /\ result = <<>>
    /\ error = ""
    /\ req = NoRequest
    /\ probe = 0
    /\ nreq = 0
    /\ tree = <<>>
    /\ plumb = NoRun

NextPlumbing ==
    \/ \E cmd \in PlumbingArgs, input \in PlumbingInputs : run_plumbing(cmd, input)
    \/ SkipStep
    \/ CallStep
    \/ MatchResult

SpecPlumbing == InitPlumbing /\ [][NextPlumbing]_vars

Returned == plumb # NoRun /\ plumb.ret # "running"

\* C14: when the work of the subcommand fails with a GoodError run_plumbing
\* returns Ok(()), for every subcommand; with any other error it returns the error.
C14_GoodErrorIsSuccess ==
    Returned =>
        /\ plumb.failed = "good" => plumb.ret = "Ok"
        /\ plumb.failed = "bad" => plumb.ret = "Err"

====
